---- MODULE Spec2Model ----
(***************************************************************************)
(* Model of meter.py: the channel classes SingleMeter and ThreePhaseMeter  *)
(* and the group PhysicalMeter that owns them.                             *)
(*                                                                         *)
(* Conventions                                                             *)
(*   - A Python dict is a function whose DOMAIN is the set of keys; a      *)
(*     KeyError is "key \notin DOMAIN".                                    *)
(*   - A string built by concatenation is a tuple of its parts:            *)
(*     "em1:" + str(0) is <<"em1", "0">>, "/Ac/L" + str(2) + "/Voltage"    *)
(*     is <<2, "Voltage">>, "a" + "_voltage" is <<"a", "voltage">>.        *)
(*   - The value "grid:40" of the role/instance setting is the tuple of    *)
(*     its ':'-separated parts <<"grid", "40">>; the instance is a decimal *)
(*     string, parsed by int() and printed by str.format().                *)
(*   - An exception that leaves a handler is the handler's result          *)
(*     ("NameError", "AttributeError"); what the handler assigned before   *)
(*     the raise is kept.                                                  *)
(*   - The static identity points of the service (/Mgmt/..., /ProductId,   *)
(*     /CustomName, ...) are written once and read by no handler; they     *)
(*     are left out.                                                       *)
(***************************************************************************)
EXTENDS Integers, Sequences, FiniteSets, TLC

\* ---------------------------------------------------------------- bounds
\* write callbacks receive integers in -1..MaxWriteVal
MaxWriteVal == 4
\* telemetry blocks are numbered 1..NumFrames
NumFrames == 1

\* ------------------------------------------------------ program constants
\* the numeric part of the default "grid:40" of ClassAndVrmInstance
DefaultInstance == 40
\* Setting(.../Position, 0, 0, 2)
PositionDefault == 0
PositionMin == 0
PositionMax == 2
\* Setting(.../Phase, 1, 1, 3) and Setting(.../Phase1Position, 1, 1, 3)
PhaseDefault == 1
PhaseMin == 1
PhaseMax == 3
\* a DoubleItem is created with the value None
None == -1

AllowedRoles == {"grid", "pvinverter", "genset", "acload"}

\* ------------------------------------------------------------ str and int
\* str(n) for the numbers the model prints
StrOf(n) ==
    CASE n = 0 -> "0"
      [] n = 1 -> "1"
      [] n = 2 -> "2"
      [] n = DefaultInstance -> "40"
      [] n = DefaultInstance + 1 -> "41"

\* int(s) for the decimal strings the model parses
IntOf(s) ==
    CASE s = "0" -> 0
      [] s = "1" -> 1
      [] s = "2" -> 2
      [] s = "40" -> DefaultInstance
      [] s = "41" -> DefaultInstance + 1

\* "_" + str(meterid)
Suffix(meterid) ==
    CASE meterid = 0 -> "_0"
      [] meterid = 1 -> "_1"
      [] meterid = 2 -> "_2"

\* value.split(':') ; val[0], int(val[1])
role_instance(value) == [role |-> value[1], instance |-> IntOf(value[2])]

\* "{}:{}".format(val, instance)
FormatRoleInstance(val, instance) == <<val, StrOf(instance)>>

\* ------------------------------------------------------------- the store
\* a settings path that leaves the channel's suffix out
SettingPath_unscoped(mac, suffix, name) == <<mac, "", name>>

\* a settings path '/Settings/Devices/shelly_' + mac + suffix + name
SettingPath(mac, suffix, name) == <<mac, suffix, name>>

\* settings.add_settings(Setting(path, default, ...)...): a setting that is
\* absent from the store is created with its default, an existing one keeps
\* its value
add_settings(st, defaults) ==
    [k \in DOMAIN st \cup DOMAIN defaults |->
        IF k \in DOMAIN st THEN st[k] ELSE defaults[k]]

\* settings.set_value(path, v)
set_value(st, path, v) == [st EXCEPT ![path] = v]

\* ------------------------------------------------------------- channels
NoItems == [p \in {} |-> None]
NoAliases == [a \in {} |-> <<"", "", "">>]

\* SingleMeter.__init__
SingleMeter(meterid) ==
    [kind |-> "single", meterid |-> meterid, monitor |-> FALSE,
     service |-> FALSE, items |-> NoItems, writeable |-> {},
     aliases |-> NoAliases, settings |-> "unset", position |-> None,
     destroyed |-> FALSE, phase |-> 1]

\* ThreePhaseMeter.__init__
ThreePhaseMeter ==
    [kind |-> "three", meterid |-> 0, monitor |-> FALSE,
     service |-> FALSE, items |-> NoItems, writeable |-> {},
     aliases |-> NoAliases, settings |-> "unset", position |-> None,
     destroyed |-> FALSE, phase |-> 1]

\* the names a statement of SingleMeter.start can resolve: the locals and
\* parameters of start, and the globals of the module
StartLocals ==
    {"self", "host", "port", "data", "mac", "fw", "model", "app", "name",
     "bus", "settings", "settingprefix", "role", "instance", "prefix"}
ModuleGlobals ==
    {"asyncio", "logging", "TimeoutError", "MessageBus", "VERSION",
     "MAIN_FILE", "Service", "IntegerItem", "DoubleItem", "TextItem",
     "TextArrayItem", "Monitor", "ServiceHandler", "SettingsService",
     "Setting", "SETTINGS_SERVICE", "logger", "LocalSettings", "unit_watt",
     "unit_volt", "unit_amp", "unit_kwh", "unit_productid",
     "alias_instance", "alias_position", "alias_phase", "SingleMeter",
     "ThreePhaseMeter", "PhysicalMeter"}
Resolves(n) == n \in StartLocals \cup ModuleGlobals

\* the names read by the Service.create call of SingleMeter.start
SingleServiceCreateNames == {"Service", "bus", "role", "mac", "meterid"}
\* the names read by the Service.create call of ThreePhaseMeter.start
ThreeServiceCreateNames == {"Service", "bus", "role", "mac"}

IdentityFields == {"mac", "fw_id", "model", "app"}

\* the writeable points registered by start
WriteablePoints(role) ==
    {"/Role", "/Phase"} \cup (IF role = "pvinverter" THEN {"/Position"} ELSE {})

\* the meter paths a SingleMeter adds: the totals and the line of its phase
SingleItems(phase) ==
    [p \in {<<0, "Energy/Forward">>, <<0, "Energy/Reverse">>, <<0, "Power">>,
            <<phase, "Voltage">>, <<phase, "Current">>, <<phase, "Power">>,
            <<phase, "Energy/Forward">>, <<phase, "Energy/Reverse">>}
        |-> None]

\* the meter paths a ThreePhaseMeter adds: the totals and lines 1..3
ThreeItems ==
    [p \in {<<0, "Energy/Forward">>, <<0, "Energy/Reverse">>, <<0, "Power">>}
           \cup ((1..3) \X {"Voltage", "Current", "Power",
                            "Energy/Forward", "Energy/Reverse"})
        |-> None]

\* SingleMeter.start; found is the outcome of wait_for_settings, seen tells
\* whether start got to the wait and how it ended
SingleMeter_start(m, data, st, found) ==
    IF ~(IdentityFields \subseteq DOMAIN data)
    THEN [m |-> m, store |-> st, seen |-> "none", ret |-> "False"]
    ELSE IF ~(data["model"] = "SPEM-002CEBEU50" /\ data["app"] = "ProEM")
    THEN [m |-> m, store |-> st, seen |-> "none", ret |-> "False"]
    ELSE IF ~found
    THEN [m |-> [m EXCEPT !.monitor = TRUE], store |-> st,
          seen |-> "timeout", ret |-> "False"]
    ELSE
      LET suffix == Suffix(m.meterid)
          al == [a \in {"instance", "position", "phaseposition"} |->
                   SettingPath(data["mac"], suffix,
                      CASE a = "instance" -> "ClassAndVrmInstance"
                        [] a = "position" -> "Position"
                        [] a = "phaseposition" -> "Phase")]
          st1 == add_settings(st,
                   (al["instance"] :> <<"grid", StrOf(DefaultInstance)>>)
                   @@ (al["position"] :> PositionDefault)
                   @@ (al["phaseposition"] :> PhaseDefault))
          ri == role_instance(st1[al["instance"]])
          m1 == [m EXCEPT !.monitor = TRUE, !.aliases = al,
                          !.phase = st1[al["phaseposition"]]]
      IN IF ~(\A n \in SingleServiceCreateNames : Resolves(n))
         THEN [m |-> m1, store |-> st1, seen |-> "found", ret |-> "NameError"]
         ELSE [m |-> [m1 EXCEPT !.service = TRUE,
                                !.writeable = WriteablePoints(ri.role),
                                !.items = SingleItems(m1.phase)],
               store |-> st1, seen |-> "found", ret |-> "True"]

\* ThreePhaseMeter.start; found is the outcome of wait_for_settings, seen
\* tells whether start got to the wait and how it ended
ThreePhaseMeter_start(m, data, st, found) ==
    IF ~(IdentityFields \subseteq DOMAIN data)
    THEN [m |-> m, store |-> st, seen |-> "none", ret |-> "False"]
    ELSE IF ~(data["model"] = "SPEM-003CEBEU" /\ data["app"] = "Pro3EM")
    THEN [m |-> m, store |-> st, seen |-> "none", ret |-> "False"]
    ELSE IF ~found
    THEN [m |-> [m EXCEPT !.monitor = TRUE], store |-> st,
          seen |-> "timeout", ret |-> "False"]
    ELSE
      LET suffix == ""
          al == [a \in {"instance", "position", "phase1position"} |->
                   SettingPath(data["mac"], suffix,
                      CASE a = "instance" -> "ClassAndVrmInstance"
                        [] a = "position" -> "Position"
                        [] a = "phase1position" -> "Phase1Position")]
          st1 == add_settings(st,
                   (al["instance"] :> <<"grid", StrOf(DefaultInstance)>>)
                   @@ (al["position"] :> PositionDefault)
                   @@ (al["phase1position"] :> PhaseDefault))
          ri == role_instance(st1[al["instance"]])
          m1 == [m EXCEPT !.monitor = TRUE, !.aliases = al,
                          !.phase = st1[al["phase1position"]]]
      IN IF ~(\A n \in ThreeServiceCreateNames : Resolves(n))
         THEN [m |-> m1, store |-> st1, seen |-> "found", ret |-> "NameError"]
         ELSE [m |-> [m1 EXCEPT !.service = TRUE,
                                !.writeable = WriteablePoints(ri.role),
                                !.items = ThreeItems],
               store |-> st1, seen |-> "found", ret |-> "True"]

\* ------------------------------------------------------------- telemetry
Letters == <<"a", "b", "c">>

\* the live block of the three-phase meter, number n: x_voltage, x_current
\* and x_act_power of the physical phases a, b, c, all different
LiveBlock3(n) ==
    [f \in {"a", "b", "c"} \X {"voltage", "current", "act_power"} |->
        LET k == CHOOSE i \in 1..3 : Letters[i] = f[1]
        IN CASE f[2] = "voltage" -> 10 * n + k
             [] f[2] = "current" -> 100 + 10 * n + k
             [] f[2] = "act_power" -> 200 + 10 * n + k]

\* the cumulative-energy block of the three-phase meter, number n, in Wh:
\* the counters of the phases and the meter's own totals total_act and
\* total_act_ret, which are counters of their own and not the sums of the
\* phase counters
EnergyBlock3(n) ==
    [f \in ({"a", "b", "c"} \X {"total_act_energy", "total_act_ret_energy"})
           \cup {<<"", "total_act">>, <<"", "total_act_ret">>} |->
        LET k == IF f[1] = "" THEN 0
                 ELSE CHOOSE i \in 1..3 : Letters[i] = f[1]
        IN CASE f[2] = "total_act_energy" -> 1000 * n + 110 * k + 10
             [] f[2] = "total_act_ret_energy" -> 1000 * n + 110 * k + 340
             [] f[2] = "total_act" -> 3000 * n + 810
             [] f[2] = "total_act_ret" -> 3000 * n + 1920]

\* the live block of a single meter, number n
LiveBlock1(n) ==
    [f \in {""} \X {"voltage", "current", "act_power"} |->
        CASE f[2] = "voltage" -> 10 * n
          [] f[2] = "current" -> 100 + 10 * n
          [] f[2] = "act_power" -> 200 + 10 * n]

\* the cumulative-energy block of a single meter, number n, in Wh
EnergyBlock1(n) ==
    [f \in {""} \X {"total_act_energy", "total_act_ret_energy"} |->
        CASE f[2] = "total_act_energy" -> 1000 * n + 120
          [] f[2] = "total_act_ret_energy" -> 1000 * n + 340]

\* round(x / 1000, 1) of a count x of Wh, as a count of tenths of a kWh
\* (x is never half way between two tenths in the blocks above)
Round1(x) == (x + 50) \div 100

\* helpertag.startswith(p + ":") for a tag <<head, index>> = head + ":" + index
StartsWith(tag, p) == tag[1] = p

\* one assignment s[path] = ... of a with-block: the fields it reads (summed)
\* and whether it converts Wh to kWh
Asg(path, src, kwh) == [path |-> path, src |-> src, kwh |-> kwh]

\* the assignments of a with-block in order; a missing field or a missing
\* item raises and leaves the block, what was assigned before is kept
RECURSIVE Publish(_, _, _)
Publish(items, assigns, fields) ==
    IF assigns = <<>> THEN [items |-> items, ok |-> TRUE]
    ELSE LET a == Head(assigns)
             v == IF a.kwh THEN Round1(fields[a.src[1]])
                  ELSE IF Len(a.src) = 1 THEN fields[a.src[1]]
                  ELSE fields[a.src[1]] + fields[a.src[2]] + fields[a.src[3]]
         IN IF (\E i \in 1..Len(a.src) : a.src[i] \notin DOMAIN fields)
               \/ a.path \notin DOMAIN items
            THEN [items |-> items, ok |-> FALSE]
            ELSE Publish([items EXCEPT ![a.path] = v], Tail(assigns), fields)

\* phaseorder that runs back after "c" where it should wrap around
phaseorder_runs_back == <<"", "a", "b", "c", "b", "a">>

\* phaseorder = ["", "a", "b", "c", "a", "b"], indexed from 0
phaseorder == <<"", "a", "b", "c", "a", "b">>
PhaseLetter(i) == phaseorder[i + 1]

\* the with-block of the "em:" branch of ThreePhaseMeter.update
ThreeLiveAssigns(p) ==
    << Asg(<<1, "Voltage">>, << <<PhaseLetter(p), "voltage">> >>, FALSE),
       Asg(<<2, "Voltage">>, << <<PhaseLetter(p + 1), "voltage">> >>, FALSE),
       Asg(<<3, "Voltage">>, << <<PhaseLetter(p + 2), "voltage">> >>, FALSE),
       Asg(<<1, "Current">>, << <<PhaseLetter(p), "current">> >>, FALSE),
       Asg(<<2, "Current">>, << <<PhaseLetter(p + 1), "current">> >>, FALSE),
       Asg(<<3, "Current">>, << <<PhaseLetter(p + 2), "current">> >>, FALSE),
       Asg(<<1, "Power">>, << <<PhaseLetter(p), "act_power">> >>, FALSE),
       Asg(<<2, "Power">>, << <<PhaseLetter(p + 1), "act_power">> >>, FALSE),
       Asg(<<3, "Power">>, << <<PhaseLetter(p + 2), "act_power">> >>, FALSE),
       Asg(<<0, "Power">>, << <<"a", "act_power">>, <<"b", "act_power">>,
                              <<"c", "act_power">> >>, FALSE) >>

\* the "emdata:" with-block with the line energies left unrotated
ThreeEnergyAssigns_unrotated(p) ==
    << Asg(<<0, "Energy/Forward">>, << <<"", "total_act">> >>, TRUE),
       Asg(<<0, "Energy/Reverse">>, << <<"", "total_act_ret">> >>, TRUE),
       Asg(<<1, "Energy/Forward">>, << <<"a", "total_act_energy">> >>, TRUE),
       Asg(<<1, "Energy/Reverse">>,
           << <<"a", "total_act_ret_energy">> >>, TRUE),
       Asg(<<2, "Energy/Forward">>, << <<"b", "total_act_energy">> >>, TRUE),
       Asg(<<2, "Energy/Reverse">>,
           << <<"b", "total_act_ret_energy">> >>, TRUE),
       Asg(<<3, "Energy/Forward">>, << <<"c", "total_act_energy">> >>, TRUE),
       Asg(<<3, "Energy/Reverse">>,
           << <<"c", "total_act_ret_energy">> >>, TRUE) >>

\* the with-block of the "emdata:" branch of ThreePhaseMeter.update
ThreeEnergyAssigns(p) ==
    << Asg(<<0, "Energy/Forward">>, << <<"", "total_act">> >>, TRUE),
       Asg(<<0, "Energy/Reverse">>, << <<"", "total_act_ret">> >>, TRUE),
       Asg(<<1, "Energy/Forward">>,
           << <<PhaseLetter(p), "total_act_energy">> >>, TRUE),
       Asg(<<1, "Energy/Reverse">>,
           << <<PhaseLetter(p), "total_act_ret_energy">> >>, TRUE),
       Asg(<<2, "Energy/Forward">>,
           << <<PhaseLetter(p + 1), "total_act_energy">> >>, TRUE),
       Asg(<<2, "Energy/Reverse">>,
           << <<PhaseLetter(p + 1), "total_act_ret_energy">> >>, TRUE),
       Asg(<<3, "Energy/Forward">>,
           << <<PhaseLetter(p + 2), "total_act_energy">> >>, TRUE),
       Asg(<<3, "Energy/Reverse">>,
           << <<PhaseLetter(p + 2), "total_act_ret_energy">> >>, TRUE) >>

\* ThreePhaseMeter.update without its try blocks: "with self.service" on a
\* service that is None raises out of update
ThreePhaseMeter_update_uncaught(m, data) ==
    IF ~data.tagged THEN [m |-> m, ret |-> "None"]
    ELSE IF StartsWith(data.tag, "em")
    THEN IF ~m.service THEN [m |-> m, ret |-> "AttributeError"]
         ELSE [m |-> [m EXCEPT !.items =
                        Publish(m.items, ThreeLiveAssigns(m.phase),
                                data.fields).items],
               ret |-> "None"]
    ELSE IF StartsWith(data.tag, "emdata")
    THEN IF ~m.service THEN [m |-> m, ret |-> "AttributeError"]
         ELSE [m |-> [m EXCEPT !.items =
                        Publish(m.items, ThreeEnergyAssigns(m.phase),
                                data.fields).items],
               ret |-> "None"]
    ELSE [m |-> m, ret |-> "None"]

\* ThreePhaseMeter.update; data is [tagged, tag, fields, method, params].
\* "with self.service" raises when the service is None; every exception of
\* the body is swallowed
ThreePhaseMeter_update(m, data) ==
    IF ~data.tagged THEN [m |-> m, ret |-> "None"]
    ELSE IF StartsWith(data.tag, "em")
    THEN IF ~m.service THEN [m |-> m, ret |-> "None"]
         ELSE [m |-> [m EXCEPT !.items =
                        Publish(m.items, ThreeLiveAssigns(m.phase),
                                data.fields).items],
               ret |-> "None"]
    ELSE IF StartsWith(data.tag, "emdata")
    THEN IF ~m.service THEN [m |-> m, ret |-> "None"]
         ELSE [m |-> [m EXCEPT !.items =
                        Publish(m.items, ThreeEnergyAssigns(m.phase),
                                data.fields).items],
               ret |-> "None"]
    ELSE [m |-> m, ret |-> "None"]

\* the with-block of the "em:" branch of SingleMeter.update
SingleLiveAssigns(p) ==
    << Asg(<<p, "Voltage">>, << <<"", "voltage">> >>, FALSE),
       Asg(<<p, "Current">>, << <<"", "current">> >>, FALSE),
       Asg(<<p, "Power">>, << <<"", "act_power">> >>, FALSE),
       Asg(<<0, "Power">>, << <<"", "act_power">> >>, FALSE) >>

\* the with-block of the "emdata:" branch of SingleMeter.update
SingleEnergyAssigns(p) ==
    << Asg(<<0, "Energy/Forward">>, << <<"", "total_act_energy">> >>, TRUE),
       Asg(<<0, "Energy/Reverse">>, << <<"", "total_act_ret_energy">> >>, TRUE),
       Asg(<<p, "Energy/Forward">>, << <<"", "total_act_energy">> >>, TRUE),
       Asg(<<p, "Energy/Reverse">>,
           << <<"", "total_act_ret_energy">> >>, TRUE) >>

\* the with-block under data['params']['em:0'] of SingleMeter.update
LegacyLiveAssigns ==
    << Asg(<<1, "Voltage">>, << <<"a", "voltage">> >>, FALSE),
       Asg(<<2, "Voltage">>, << <<"b", "voltage">> >>, FALSE),
       Asg(<<3, "Voltage">>, << <<"c", "voltage">> >>, FALSE),
       Asg(<<1, "Current">>, << <<"a", "current">> >>, FALSE),
       Asg(<<2, "Current">>, << <<"b", "current">> >>, FALSE),
       Asg(<<3, "Current">>, << <<"c", "current">> >>, FALSE),
       Asg(<<1, "Power">>, << <<"a", "act_power">> >>, FALSE),
       Asg(<<2, "Power">>, << <<"b", "act_power">> >>, FALSE),
       Asg(<<3, "Power">>, << <<"c", "act_power">> >>, FALSE),
       Asg(<<0, "Power">>, << <<"a", "act_power">>, <<"b", "act_power">>,
                              <<"c", "act_power">> >>, FALSE) >>

\* the with-block under data['params']['emdata:0'] of SingleMeter.update
LegacyEnergyAssigns ==
    << Asg(<<0, "Energy/Forward">>, << <<"", "total_act">> >>, TRUE),
       Asg(<<0, "Energy/Reverse">>, << <<"", "total_act_ret">> >>, TRUE),
       Asg(<<1, "Energy/Forward">>, << <<"a", "total_act_energy">> >>, TRUE),
       Asg(<<1, "Energy/Reverse">>,
           << <<"a", "total_act_ret_energy">> >>, TRUE),
       Asg(<<2, "Energy/Forward">>, << <<"b", "total_act_energy">> >>, TRUE),
       Asg(<<2, "Energy/Reverse">>,
           << <<"b", "total_act_ret_energy">> >>, TRUE),
       Asg(<<3, "Energy/Forward">>, << <<"c", "total_act_energy">> >>, TRUE),
       Asg(<<3, "Energy/Reverse">>,
           << <<"c", "total_act_ret_energy">> >>, TRUE) >>

\* the tagged part of SingleMeter.update (every exception swallowed)
SingleMeter_update_tagged(m, data) ==
    IF ~data.tagged THEN m
    ELSE IF StartsWith(data.tag, "em")
    THEN IF ~m.service THEN m
         ELSE [m EXCEPT !.items =
                 Publish(m.items, SingleLiveAssigns(m.phase), data.fields).items]
    ELSE IF StartsWith(data.tag, "emdata")
    THEN IF ~m.service THEN m
         ELSE [m EXCEPT !.items =
                 Publish(m.items, SingleEnergyAssigns(m.phase),
                         data.fields).items]
    ELSE m

\* SingleMeter.update: the tagged part, then the NotifyStatus part, whose
\* with-blocks are outside any try
SingleMeter_update(m, data) ==
    LET m1 == SingleMeter_update_tagged(m, data)
    IN IF ~(m1.service /\ data.method = "NotifyStatus")
       THEN [m |-> m1, ret |-> "None"]
       ELSE
         LET live == IF <<"em", "0">> \in DOMAIN data.params
                     THEN Publish(m1.items, LegacyLiveAssigns,
                                  data.params[<<"em", "0">>])
                     ELSE [items |-> m1.items, ok |-> TRUE]
             energy == IF <<"emdata", "0">> \in DOMAIN data.params
                       THEN Publish(live.items, LegacyEnergyAssigns,
                                    data.params[<<"emdata", "0">>])
                       ELSE [items |-> live.items, ok |-> TRUE]
         IN IF ~live.ok
            THEN [m |-> [m1 EXCEPT !.items = live.items], ret |-> "KeyError"]
            ELSE [m |-> [m1 EXCEPT !.items = energy.items],
                  ret |-> IF energy.ok THEN "None" ELSE "KeyError"]

\* ------------------------------------------------- destroy and callbacks
\* destroy() that sets the flag only when it had a service to delete
destroy_flag_follows_service(m) ==
    [m |-> [m EXCEPT !.service = FALSE, !.items = NoItems, !.writeable = {},
                     !.settings = "None", !.destroyed = m.service],
     ret |-> "None"]

\* destroy() without the "is not None" test: None has no __del__
destroy_unguarded(m) ==
    IF m.service
    THEN [m |-> [m EXCEPT !.service = FALSE, !.items = NoItems,
                          !.writeable = {}, !.settings = "None",
                          !.destroyed = TRUE],
          ret |-> "None"]
    ELSE [m |-> m, ret |-> "AttributeError"]

\* SingleMeter.destroy / ThreePhaseMeter.destroy. service.__del__() takes the
\* service and its points off the bus
destroy(m) ==
    [m |-> [m EXCEPT !.service = FALSE, !.items = NoItems, !.writeable = {},
                     !.settings = "None", !.destroyed = TRUE],
     ret |-> "None"]

\* get_settings(): the settings service if the monitor knows it, else None
get_settings(m, up) == m.monitor /\ up /\ m.aliases # NoAliases

\* settings_changed that restarts on a change of any setting
settings_changed_any_key(m, keys) ==
    IF keys # {} THEN destroy(m) ELSE [m |-> m, ret |-> "None"]

\* settings_changed(service, values): keys is the set of changed paths
settings_changed(m, keys) ==
    IF m.aliases["instance"] \in keys THEN destroy(m)
    ELSE [m |-> m, ret |-> "None"]

\* role_changed without the restart
role_changed_no_restart(m, val, st, up) ==
    IF val \notin AllowedRoles
    THEN [m |-> m, store |-> st, ret |-> "False"]
    ELSE IF ~get_settings(m, up)
    THEN [m |-> m, store |-> st, ret |-> "False"]
    ELSE LET p == m.aliases["instance"]
             ri == role_instance(st[p])
         IN [m |-> m,
             store |-> set_value(st, p, FormatRoleInstance(val, ri.instance)),
             ret |-> "True"]

\* role_changed without the test of the role
role_changed_unchecked(m, val, st, up) ==
    IF ~get_settings(m, up)
    THEN [m |-> m, store |-> st, ret |-> "False"]
    ELSE LET p == m.aliases["instance"]
             ri == role_instance(st[p])
             d == destroy(m)
         IN [m |-> d.m,
             store |-> set_value(st, p, FormatRoleInstance(val, ri.instance)),
             ret |-> IF d.ret = "None" THEN "True" ELSE d.ret]

\* role_changed(val)
role_changed(m, val, st, up) ==
    IF val \notin AllowedRoles
    THEN [m |-> m, store |-> st, ret |-> "False"]
    ELSE IF ~get_settings(m, up)
    THEN [m |-> m, store |-> st, ret |-> "False"]
    ELSE LET p == m.aliases["instance"]
             ri == role_instance(st[p])
             d == destroy(m)
         IN [m |-> d.m,
             store |-> set_value(st, p, FormatRoleInstance(val, ri.instance)),
             ret |-> IF d.ret = "None" THEN "True" ELSE d.ret]

\* position_changed with "0 < val" for "0 <= val"
position_changed_exclusive_lower(m, val, st, up) ==
    IF ~(PositionMin < val /\ val <= PositionMax)
    THEN [m |-> m, store |-> st, ret |-> "False"]
    ELSE IF ~get_settings(m, up)
    THEN [m |-> m, store |-> st, ret |-> "False"]
    ELSE [m |-> m, store |-> set_value(st, m.aliases["position"], val),
          ret |-> "True"]

\* position_changed(val)
position_changed(m, val, st, up) ==
    IF ~(PositionMin <= val /\ val <= PositionMax)
    THEN [m |-> m, store |-> st, ret |-> "False"]
    ELSE IF ~get_settings(m, up)
    THEN [m |-> m, store |-> st, ret |-> "False"]
    ELSE [m |-> m, store |-> set_value(st, m.aliases["position"], val),
          ret |-> "True"]

\* the alias of the phase setting: "phaseposition" / "phase1position"
PhaseAlias(m) == IF m.kind = "single" THEN "phaseposition" ELSE "phase1position"

\* phase_changed that stores the value and leaves self.phase1position
phase_changed_store_only(m, val, st, up) ==
    IF ~(PhaseMin <= val /\ val <= PhaseMax)
    THEN [m |-> m, store |-> st, ret |-> "False"]
    ELSE IF ~get_settings(m, up)
    THEN [m |-> m, store |-> st, ret |-> "False"]
    ELSE [m |-> m,
          store |-> set_value(st, m.aliases[PhaseAlias(m)], val),
          ret |-> "True"]

\* phase_changed(val)
phase_changed(m, val, st, up) ==
    IF ~(PhaseMin <= val /\ val <= PhaseMax)
    THEN [m |-> m, store |-> st, ret |-> "False"]
    ELSE IF ~get_settings(m, up)
    THEN [m |-> m, store |-> st, ret |-> "False"]
    ELSE [m |-> [m EXCEPT !.phase = val],
          store |-> set_value(st, m.aliases[PhaseAlias(m)], val),
          ret |-> "True"]

Channel_update(m, data) ==
    IF m.kind = "single" THEN SingleMeter_update(m, data)
    ELSE ThreePhaseMeter_update(m, data)

\* ------------------------------------------------------------- the group
NoMeters == [i \in {} |-> ThreePhaseMeter]
NoKeys == [i \in {} |-> {}]

\* {"em1:" + str(meter), "em1data:" + str(meter)}
SingleKeys(meter) == {<<"em1", StrOf(meter)>>, <<"em1data", StrOf(meter)>>}
\* the three-phase channel bound to the keys of single meter 0
ThreeKeys_single_meter == SingleKeys(0)

\* {"em:0", "emdata:0"}
ThreeKeys == {<<"em", "0">>, <<"emdata", "0">>}

\* "for meter in range(n)" of PhysicalMeter.start from meter = k on: the
\* channel is entered in localmeters and localmeterskeys, then started; a
\* start that returns False or raises ends the loop. w[k] is the outcome of
\* the wait_for_settings of channel k
RECURSIVE StartSingles(_, _, _, _, _, _, _, _)
StartSingles(k, n, lm, keys, data, st, w, seen) ==
    IF k = n
    THEN [lm |-> lm, keys |-> keys, store |-> st, seen |-> seen,
          ret |-> "True"]
    ELSE LET r == SingleMeter_start(SingleMeter(k), data, st, w[k])
             lm1 == (k :> r.m) @@ lm
             keys1 == (k :> SingleKeys(k)) @@ keys
             seen1 == IF r.seen = "none" THEN seen ELSE r.seen
         IN IF r.ret = "True"
            THEN StartSingles(k + 1, n, lm1, keys1, data, r.store, w, seen1)
            ELSE [lm |-> lm1, keys |-> keys1, store |-> r.store,
                  seen |-> seen1, ret |-> r.ret]

\* PhysicalMeter.start
PhysicalMeter_start(lm, keys, data, st, w) ==
    IF ~({"model", "app"} \subseteq DOMAIN data)
    THEN [lm |-> lm, keys |-> keys, store |-> st, seen |-> "none",
          ret |-> "False"]
    ELSE IF data["model"] = "SPEM-002CEBEU50" /\ data["app"] = "ProEM"
    THEN StartSingles(0, 2, lm, keys, data, st, w, "none")
    ELSE IF data["model"] = "SPEM-003CEBEU" /\ data["app"] = "Pro3EM"
    THEN IF "profile" \notin DOMAIN data
         THEN [lm |-> lm, keys |-> keys, store |-> st, seen |-> "none",
          ret |-> "False"]
         ELSE IF data["profile"] = "monophase"
         THEN StartSingles(0, 3, lm, keys, data, st, w, "none")
         ELSE LET r == ThreePhaseMeter_start(ThreePhaseMeter, data, st, w[0])
              IN [lm |-> (0 :> r.m) @@ lm, keys |-> (0 :> ThreeKeys) @@ keys,
                  store |-> r.store, seen |-> r.seen, ret |-> r.ret]
    ELSE [lm |-> lm, keys |-> keys, store |-> st, seen |-> "none",
          ret |-> "False"]

\* "for meter in self.localmeters" iterates the dict, which yields its keys:
\* the channel indices, which are ints. These are the attributes the loops
\* of PhysicalMeter read on what they iterate
IntAttributes == {"real", "imag", "numerator", "denominator"}
SweepReads == "destroyed"

\* PhysicalMeter.destroy: "meter.destroyed" on the first key raises
PhysicalMeter_destroy(lm, d) ==
    IF DOMAIN lm # {} /\ SweepReads \notin IntAttributes
    THEN [lm |-> lm, destroyed |-> d, ret |-> "AttributeError"]
    ELSE [lm |-> lm, destroyed |-> TRUE, ret |-> "None"]

\* the dispatch loop of PhysicalMeter.update over the (meter, key) pairs in
\* the order they are visited: a key that is not in params is skipped; the
\* block is tagged and handed to the channel; a block that is no dict, or
\* an exception leaving the channel's update, ends the loop (outer except)
RECURSIVE Dispatch(_, _, _)
Dispatch(lm, params, order) ==
    IF order = <<>> THEN lm
    ELSE LET meter == Head(order)[1]
             key == Head(order)[2]
         IN IF key \notin DOMAIN params
            THEN Dispatch(lm, params, Tail(order))
            ELSE IF params[key].shape # "dict" THEN lm
            ELSE LET r == Channel_update(lm[meter],
                            [tagged |-> TRUE, tag |-> key,
                             fields |-> params[key].fields,
                             method |-> "absent", params |-> NoKeys])
                     lm1 == [lm EXCEPT ![meter] = r.m]
                 IN IF r.ret # "None" THEN lm1
                    ELSE Dispatch(lm1, params, Tail(order))

\* PhysicalMeter.update: the sweep reads "meter.destroyed" on the first key
\* and raises, outside the try; with no channels it goes on to the dispatch
PhysicalMeter_update(lm, keys, d, data, order) ==
    IF DOMAIN lm # {} /\ SweepReads \notin IntAttributes
    THEN [lm |-> lm, destroyed |-> d, ret |-> "AttributeError"]
    ELSE IF data.method = "NotifyStatus" /\ data.hasParams
         THEN [lm |-> Dispatch(lm, data.params, order), destroyed |-> d,
               ret |-> "None"]
         ELSE [lm |-> lm, destroyed |-> d, ret |-> "None"]

\* ------------------------------------------------------------ the inputs
Absent == "absent"

\* data['result'] of the handshake: a field whose value is Absent is missing
Handshake(model, app, profile, mac, fw) ==
    LET all == [f \in {"model", "app", "profile", "mac", "fw_id"} |->
                  CASE f = "model" -> model
                    [] f = "app" -> app
                    [] f = "profile" -> profile
                    [] f = "mac" -> mac
                    [] f = "fw_id" -> fw]
    IN [f \in {g \in DOMAIN all : all[g] # Absent} |-> all[f]]

Handshakes ==
    { Handshake(model, app, profile, mac, fw) :
        model \in {Absent, "SPEM-002CEBEU50", "SPEM-003CEBEU", "other"},
        app \in {Absent, "ProEM", "Pro3EM"},
        profile \in {Absent, "monophase", "triphase"},
        mac \in {Absent, "M"},
        fw \in {Absent, "F"} }

NoHandshake == [f \in {} |-> Absent]

\* what the store holds before the group is built: nothing, or the
\* settings an earlier run of the same device left
StoreOf(role, position, phase) ==
    [k \in {"M"} \X {"", "_0"} \X {"ClassAndVrmInstance", "Position"}
           \cup {<<"M", "", "Phase1Position">>, <<"M", "_0", "Phase">>} |->
        CASE k[3] = "ClassAndVrmInstance" -> <<role, StrOf(DefaultInstance + 1)>>
          [] k[3] = "Position" -> position
          [] OTHER -> phase]

EmptyStore == [k \in {} |-> 0]

InitStores == {EmptyStore, StoreOf("pvinverter", 1, 2)}

\* a block of a batched notification
Block(fields) == [shape |-> "dict", fields |-> fields]

\* the frames handed to PhysicalMeter.update
GroupFrames ==
    { [method |-> "NotifyStatus", hasParams |-> TRUE,
       params |-> (<<"emdata", "0">> :> Block(EnergyBlock3(n)))
                  @@ (<<"em", "0">> :> Block(LiveBlock3(n)))] : n \in 1..NumFrames }
    \cup
    { [method |-> "NotifyStatus", hasParams |-> TRUE,
       params |-> (<<"em1", "0">> :> Block(LiveBlock1(1)))
                  @@ (<<"em1", "1">> :> Block(LiveBlock1(2)))],
      [method |-> "NotifyStatus", hasParams |-> FALSE, params |-> NoKeys],
      [method |-> Absent, hasParams |-> FALSE, params |-> NoKeys] }

\* the blocks handed to a channel's update
ChannelFrames ==
    { [n |-> n, tagged |-> TRUE, tag |-> <<"em", "0">>, fields |-> LiveBlock3(n),
       method |-> Absent, params |-> NoKeys] : n \in 1..NumFrames }
    \cup
    { [n |-> n, tagged |-> TRUE, tag |-> <<"emdata", "0">>,
       fields |-> EnergyBlock3(n),
       method |-> Absent, params |-> NoKeys] : n \in 1..NumFrames }
    \cup
    { [n |-> 1, tagged |-> TRUE, tag |-> <<"em1", "0">>, fields |-> LiveBlock1(1),
       method |-> Absent, params |-> NoKeys] }
    \cup
    { [n |-> 1, tagged |-> FALSE, tag |-> <<"", "">>, fields |-> LiveBlock3(1),
       method |-> Absent, params |-> NoKeys],
      [n |-> 1, tagged |-> FALSE, tag |-> <<"", "">>, fields |-> LiveBlock3(1),
       method |-> "NotifyStatus",
       params |-> (<<"em", "0">> :> LiveBlock3(1))] }

\* a block in which the fields of gone are missing
Without(block, gone) == [f \in DOMAIN block \ gone |-> block[f]]

\* live blocks of the three-phase meter that lack the voltage of one phase
PartialFrames ==
    { [n |-> 1, tagged |-> TRUE, tag |-> <<"em", "0">>,
       fields |-> Without(LiveBlock3(1), {<<x, "voltage">>}),
       method |-> Absent, params |-> NoKeys] : x \in {"b"} }

\* a block of a batched notification that is a string and no dict
Malformed ==
    [shape |-> "str",
     fields |-> Without(LiveBlock3(1), DOMAIN LiveBlock3(1))]

\* batched notifications that hold a malformed block under one recognized
\* key and a whole block under another
MalformedFrames ==
    { [method |-> "NotifyStatus", hasParams |-> TRUE,
       params |-> (<<"em", "0">> :> Malformed)
                  @@ (<<"emdata", "0">> :> Block(EnergyBlock3(1)))] }

\* the values an edit of the role/instance setting made elsewhere writes
ExternalRoleInstances == {<<"genset", "40">>}

\* the sets of settings one notification of the store reports as changed
ExternalEdits ==
    {{"instance"}, {"position"}, {"phase"}, {"instance", "phase"}}

WriteRoles == AllowedRoles \cup {"", "battery"}
WriteInts == (0 - 1)..MaxWriteVal

\* --------------------------------------------------------------- state
VARIABLES
    localmeters,      \* PhysicalMeter.localmeters: index -> channel
    localmeterskeys,  \* PhysicalMeter.localmeterskeys: index -> set of keys
    destroyed,        \* PhysicalMeter.destroyed
    store,            \* the settings of the configuration store
    storeUp,          \* whether the store is on the bus
    handshake,        \* the data PhysicalMeter.start was called with
    started,          \* whether PhysicalMeter.start was called
    lastOp            \* the last call: what, on which channel, with what, result

vars == <<localmeters, localmeterskeys, destroyed, store, storeUp, handshake,
          started, lastOp>>

\* was: whether the channel of the call (for a call on the group: one of its
\* channels) had destroyed = True when the call was made
Op(op, ch, sval, ival, keys, ret, was) ==
    [op |-> op, ch |-> ch, sval |-> sval, ival |-> ival, keys |-> keys,
     ret |-> ret, was |-> was]

AnyDestroyed(lm) == \E i \in DOMAIN lm : lm[i].destroyed

Init ==
    /\ localmeters = NoMeters
    /\ localmeterskeys = NoKeys
    /\ destroyed = FALSE
    /\ store \in InitStores
    /\ storeUp \in BOOLEAN
    /\ handshake = NoHandshake
    /\ started = FALSE
    /\ lastOp = Op("init", 0 - 1, "", 0, {}, "None", FALSE)

\* the caller runs PhysicalMeter.start once. w[k] tells whether the
\* wait_for_settings of channel k finds the store (it is up, or comes up
\* within the 5 seconds) or times out; a store that is up when start is
\* called is found by the first wait. The store is on the bus after the call
\* if the last wait found it
GroupStart ==
    /\ ~started
    /\ \E data \in Handshakes, w \in [0..2 -> BOOLEAN] :
         /\ storeUp => w[0]
         /\ LET r == PhysicalMeter_start(localmeters, localmeterskeys, data,
                                         store, w)
            IN /\ localmeters' = r.lm
               /\ localmeterskeys' = r.keys
               /\ store' = r.store
               /\ storeUp' = CASE r.seen = "none" -> storeUp
                                [] r.seen = "found" -> TRUE
                                [] r.seen = "timeout" -> FALSE
               /\ handshake' = data
               /\ lastOp' = Op("start", 0 - 1, "", 0, {k \in 0..2 : w[k]}, r.ret,
                               FALSE)
    /\ started' = TRUE
    /\ UNCHANGED destroyed

\* the (meter, key) pairs in the order the dispatch loop visits them: the
\* channels in insertion order, the two keys of a channel in either order
RECURSIVE VisitOrder(_, _, _)
VisitOrder(k, keys, flip) ==
    IF k > 2 THEN <<>>
    ELSE IF k \notin DOMAIN keys THEN VisitOrder(k + 1, keys, flip)
    ELSE LET live == CHOOSE x \in keys[k] : x[1] \in {"em", "em1"}
             data == CHOOSE x \in keys[k] : x # live
         IN (IF flip[k] THEN << <<k, data>>, <<k, live>> >>
             ELSE << <<k, live>>, <<k, data>> >>)
            \o VisitOrder(k + 1, keys, flip)

\* PhysicalMeter.update(data)
GroupUpdate ==
    \E data \in GroupFrames, flip \in [DOMAIN localmeterskeys -> BOOLEAN] :
      LET r == PhysicalMeter_update(localmeters, localmeterskeys, destroyed,
                  data, VisitOrder(0, localmeterskeys, flip))
      IN /\ localmeters' = r.lm
         /\ destroyed' = r.destroyed
         /\ lastOp' = Op("update", 0 - 1, data.method, 0, DOMAIN data.params,
                         r.ret, AnyDestroyed(localmeters))
         /\ UNCHANGED <<localmeterskeys, store, storeUp, handshake, started>>

\* PhysicalMeter.update(data) with a notification that holds a malformed
\* block; lastOp.ival is the number of malformed blocks
GroupUpdateMalformed ==
    \E data \in MalformedFrames, flip \in [DOMAIN localmeterskeys -> BOOLEAN] :
      LET r == PhysicalMeter_update(localmeters, localmeterskeys, destroyed,
                  data, VisitOrder(0, localmeterskeys, flip))
      IN /\ localmeters' = r.lm
         /\ destroyed' = r.destroyed
         /\ lastOp' = Op("update", 0 - 1, data.method, 1, DOMAIN data.params,
                         r.ret, AnyDestroyed(localmeters))
         /\ UNCHANGED <<localmeterskeys, store, storeUp, handshake, started>>

\* PhysicalMeter.destroy()
GroupDestroy ==
    LET r == PhysicalMeter_destroy(localmeters, destroyed)
    IN /\ localmeters' = r.lm
       /\ destroyed' = r.destroyed
       /\ lastOp' = Op("destroy", 0 - 1, "", 0, {}, r.ret,
                       AnyDestroyed(localmeters))
       /\ UNCHANGED <<localmeterskeys, store, storeUp, handshake, started>>

\* update(data) called on channel i with a whole block; lastOp.keys are the
\* fields of the block
ChannelUpdate ==
    \E i \in DOMAIN localmeters, data \in ChannelFrames :
      LET r == Channel_update(localmeters[i], data)
      IN /\ localmeters' = [localmeters EXCEPT ![i] = r.m]
         /\ lastOp' = Op("ingest", i, data.tag[1], 0, DOMAIN data.fields,
                         r.ret, localmeters[i].destroyed)
         /\ UNCHANGED <<localmeterskeys, destroyed, store, storeUp, handshake,
                        started>>

\* update(data) called on channel i with a block that lacks a field
ChannelUpdatePartial ==
    \E i \in DOMAIN localmeters, data \in PartialFrames :
      LET r == Channel_update(localmeters[i], data)
      IN /\ localmeters' = [localmeters EXCEPT ![i] = r.m]
         /\ lastOp' = Op("ingest", i, data.tag[1], 0, DOMAIN data.fields,
                         r.ret, localmeters[i].destroyed)
         /\ UNCHANGED <<localmeterskeys, destroyed, store, storeUp, handshake,
                        started>>

\* destroy() called on channel i
ChannelDestroy ==
    \E i \in DOMAIN localmeters :
      /\ localmeters' = [localmeters EXCEPT ![i] = destroy(localmeters[i]).m]
      /\ lastOp' = Op("chdestroy", i, "", 0, {}, destroy(localmeters[i]).ret,
                      localmeters[i].destroyed)
      /\ UNCHANGED <<localmeterskeys, destroyed, store, storeUp, handshake,
                     started>>

\* the store tells the monitor of channel i that settings of the channel
\* were changed: the aliases in ks, to the values ri, pos and ph
SettingsChanged ==
    \E i \in DOMAIN localmeters :
      /\ localmeters[i].monitor
      /\ localmeters[i].aliases # NoAliases
      /\ storeUp
      /\ \E ks \in ExternalEdits,
            ri \in ExternalRoleInstances,
            pos \in {PositionMax},
            ph \in {PhaseMax} :
           LET m == localmeters[i]
               paths == {m.aliases[IF a = "phase" THEN PhaseAlias(m) ELSE a] :
                           a \in ks}
               st1 == IF "instance" \in ks
                      THEN set_value(store, m.aliases["instance"], ri)
                      ELSE store
               st2 == IF "position" \in ks
                      THEN set_value(st1, m.aliases["position"], pos)
                      ELSE st1
               st3 == IF "phase" \in ks
                      THEN set_value(st2, m.aliases[PhaseAlias(m)], ph)
                      ELSE st2
           IN /\ store' = st3
              /\ localmeters' =
                    [localmeters EXCEPT ![i] = settings_changed(m, paths).m]
              /\ lastOp' = Op("settings_changed", i, "", 0, ks,
                              settings_changed(m, paths).ret, m.destroyed)
      /\ UNCHANGED <<localmeterskeys, destroyed, storeUp, handshake, started>>

\* a write of val to the /Role point of channel i
RoleWrite ==
    \E i \in DOMAIN localmeters, val \in WriteRoles :
      /\ "/Role" \in localmeters[i].writeable
      /\ LET r == role_changed(localmeters[i], val, store, storeUp)
         IN /\ localmeters' = [localmeters EXCEPT ![i] = r.m]
            /\ store' = r.store
            /\ lastOp' = Op("role_changed", i, val, 0, {}, r.ret, FALSE)
      /\ UNCHANGED <<localmeterskeys, destroyed, storeUp, handshake, started>>

\* a write of val to the /Position point of channel i
PositionWrite ==
    \E i \in DOMAIN localmeters, val \in WriteInts :
      /\ "/Position" \in localmeters[i].writeable
      /\ LET r == position_changed(localmeters[i], val, store, storeUp)
         IN /\ localmeters' = [localmeters EXCEPT ![i] = r.m]
            /\ store' = r.store
            /\ lastOp' = Op("position_changed", i, "", val, {}, r.ret, FALSE)
      /\ UNCHANGED <<localmeterskeys, destroyed, storeUp, handshake, started>>

\* a write of val to the /Phase point of channel i
PhaseWrite ==
    \E i \in DOMAIN localmeters, val \in WriteInts :
      /\ "/Phase" \in localmeters[i].writeable
      /\ LET r == phase_changed(localmeters[i], val, store, storeUp)
         IN /\ localmeters' = [localmeters EXCEPT ![i] = r.m]
            /\ store' = r.store
            /\ lastOp' = Op("phase_changed", i, "", val, {}, r.ret, FALSE)
      /\ UNCHANGED <<localmeterskeys, destroyed, storeUp, handshake, started>>

\* the store leaves the bus: the monitors no longer know it
StoreDown ==
    /\ storeUp
    /\ storeUp' = FALSE
    /\ lastOp' = Op("store_down", 0 - 1, "", 0, {}, "None", FALSE)
    /\ UNCHANGED <<localmeters, localmeterskeys, destroyed, store, handshake,
                   started>>

\* the store comes back on the bus
StoreUp ==
    /\ ~storeUp
    /\ storeUp' = TRUE
    /\ lastOp' = Op("store_up", 0 - 1, "", 0, {}, "None", FALSE)
    /\ UNCHANGED <<localmeters, localmeterskeys, destroyed, store, handshake,
                   started>>

Next ==
    \/ GroupStart
    \/ GroupUpdate
    \/ GroupDestroy
    \/ ChannelUpdate
    \/ ChannelDestroy
    \/ SettingsChanged
    \/ RoleWrite
    \/ PositionWrite
    \/ PhaseWrite
    \/ StoreDown
    \/ StoreUp

Spec == Init /\ [][Next]_vars

\* the same program, also handed blocks that lack a field and notifications
\* that hold a malformed block
NextPartial == Next \/ ChannelUpdatePartial \/ GroupUpdateMalformed

SpecPartial == Init /\ [][NextPartial]_vars

\* ------------------------------------------------------------ the claims
\* a channel is ACTIVE when start has published its points and it is not
\* destroyed
Active(m) == m.service /\ ~m.destroyed

\* a step that calls destroy() on channel lastOp'.ch
DestroyCalled(op) ==
    \/ op.op = "chdestroy"
    \/ op.op = "settings_changed" /\ "instance" \in op.keys

\* C1: an ingestion pass of the group that starts with a destroyed channel
\* returns without raising, with the group and every channel destroyed
C1_SweepTearsGroupDown ==
    [][ (lastOp'.op = "update" /\ AnyDestroyed(localmeters))
        => /\ lastOp'.ret = "None"
           /\ destroyed'
           /\ \A i \in DOMAIN localmeters' : localmeters'[i].destroyed ]_vars

\* C2: once a channel's destroyed flag is true it stays true, whatever is
\* called next
C2_DestroyedMonotonic ==
    [][ \A i \in DOMAIN localmeters :
          localmeters[i].destroyed
          => i \in DOMAIN localmeters' /\ localmeters'[i].destroyed ]_vars

\* C2 witness: a channel that was destroyed before an ingest is destroyed
\* after it
C2_Witness ==
    /\ lastOp.op = "ingest"
    /\ lastOp.was
    /\ localmeters[lastOp.ch].destroyed

\* C3: destroy() on a channel that is already destroyed does not raise and
\* leaves the channel (flag, service and points, phase assignment) and the
\* stored configuration as they were
C3_DestroyIdempotent ==
    [][ (DestroyCalled(lastOp') /\ localmeters[lastOp'.ch].destroyed)
        => /\ lastOp'.ret = "None"
           /\ localmeters'[lastOp'.ch] = localmeters[lastOp'.ch]
           /\ (lastOp'.op = "chdestroy" => store' = store) ]_vars

\* C3 witness: destroy() was called on a three-phase channel that start had
\* made ACTIVE and that was already destroyed
C3_Witness ==
    /\ lastOp.op = "chdestroy"
    /\ lastOp.was
    /\ localmeters[lastOp.ch].kind = "three"
    /\ localmeters[lastOp.ch].aliases # NoAliases
    /\ localmeters[lastOp.ch].destroyed

\* the paths of channel m's settings
InstanceKey(m) == m.aliases["instance"]
PositionKey(m) == m.aliases["position"]
PhaseKey(m) == m.aliases[PhaseAlias(m)]

\* C5 as stated: a role write of an allowed role on an ACTIVE channel is
\* accepted, stores "<newrole>:<instance before>" and destroys the channel
C5_RoleWriteAsStated ==
    [][ (/\ lastOp'.op = "role_changed"
         /\ lastOp'.sval \in {"grid", "pvinverter", "genset", "acload"}
         /\ Active(localmeters[lastOp'.ch]))
        => LET m == localmeters[lastOp'.ch]
           IN /\ lastOp'.ret = "True"
              /\ Len(store'[InstanceKey(m)]) = 2
              /\ store'[InstanceKey(m)][1] = lastOp'.sval
              /\ IntOf(store'[InstanceKey(m)][2])
                   = IntOf(store[InstanceKey(m)][2])
              /\ localmeters'[lastOp'.ch].destroyed ]_vars

\* C5 amended: a role write of an allowed role on an ACTIVE channel whose
\* monitor knows the configuration store is accepted, stores
\* "<newrole>:<instance before>" and destroys the channel
C5_RoleWrite ==
    [][ (/\ lastOp'.op = "role_changed"
         /\ lastOp'.sval \in {"grid", "pvinverter", "genset", "acload"}
         /\ Active(localmeters[lastOp'.ch])
         /\ storeUp)
        => LET m == localmeters[lastOp'.ch]
           IN /\ lastOp'.ret = "True"
              /\ Len(store'[InstanceKey(m)]) = 2
              /\ store'[InstanceKey(m)][1] = lastOp'.sval
              /\ IntOf(store'[InstanceKey(m)][2])
                   = IntOf(store[InstanceKey(m)][2])
              /\ localmeters'[lastOp'.ch].destroyed ]_vars

\* C5 witness: the write of "genset" was accepted on the channel of a store
\* that held instance 41: the store holds "genset:41", the channel is
\* destroyed
C5_Witness ==
    /\ lastOp.op = "role_changed"
    /\ lastOp.sval = "genset"
    /\ lastOp.ret = "True"
    /\ localmeters[lastOp.ch].destroyed
    /\ store[InstanceKey(localmeters[lastOp.ch])] = <<"genset", "41">>

\* a write whose value is outside the role set or the range of its point
RejectedValue(op) ==
    \/ op.op = "role_changed"
       /\ op.sval \notin {"grid", "pvinverter", "genset", "acload"}
    \/ op.op = "position_changed" /\ ~(0 <= op.ival /\ op.ival <= 2)
    \/ op.op = "phase_changed" /\ ~(1 <= op.ival /\ op.ival <= 3)

\* C6: a write of a value outside the role set or the range is rejected and
\* changes neither the store nor the channel
C6_RejectedWriteChangesNothing ==
    [][ RejectedValue(lastOp')
        => /\ lastOp'.ret = "False"
           /\ store' = store
           /\ localmeters' = localmeters ]_vars

\* C6 witness: the role "battery" was written to an ACTIVE channel and
\* rejected
C6_Witness ==
    /\ lastOp.op = "role_changed"
    /\ lastOp.sval = "battery"
    /\ lastOp.ret = "False"
    /\ Active(localmeters[lastOp.ch])

\* C7: a change notification of the store destroys the channel when it
\* holds the role/instance path, and leaves the flag as it was when not
C7_ExternalRoleEditDestroys ==
    [][ lastOp'.op = "settings_changed"
        => IF "instance" \in lastOp'.keys
           THEN localmeters'[lastOp'.ch].destroyed
           ELSE localmeters'[lastOp'.ch].destroyed
                  = localmeters[lastOp'.ch].destroyed ]_vars

\* C7 witness: an ACTIVE three-phase channel was told of an edit of its
\* role/instance path and is destroyed
C7_Witness ==
    /\ lastOp.op = "settings_changed"
    /\ "instance" \in lastOp.keys
    /\ ~lastOp.was
    /\ localmeters[lastOp.ch].kind = "three"
    /\ localmeters[lastOp.ch].destroyed
    /\ store[InstanceKey(localmeters[lastOp.ch])] = <<"genset", "40">>

\* C8 as stated: a position write on an ACTIVE channel is accepted exactly
\* for 0, 1, 2; an accepted write stores the position and changes nothing
\* else
C8_PositionWriteAsStated ==
    [][ (lastOp'.op = "position_changed" /\ Active(localmeters[lastOp'.ch]))
        => LET m == localmeters[lastOp'.ch]
           IN /\ lastOp'.ret \in {"True", "False"}
              /\ (lastOp'.ret = "True") <=> (lastOp'.ival \in {0, 1, 2})
              /\ lastOp'.ret = "True"
                 => /\ store'[PositionKey(m)] = lastOp'.ival
                    /\ store'[InstanceKey(m)] = store[InstanceKey(m)]
                    /\ store'[PhaseKey(m)] = store[PhaseKey(m)]
                    /\ localmeters' = localmeters ]_vars

\* C8 amended: a position write on an ACTIVE channel is accepted exactly
\* for 0, 1, 2 while the channel's monitor knows the store, and rejected
\* otherwise; an accepted write stores the position and changes nothing else
C8_PositionWrite ==
    [][ (lastOp'.op = "position_changed" /\ Active(localmeters[lastOp'.ch]))
        => LET m == localmeters[lastOp'.ch]
           IN /\ lastOp'.ret \in {"True", "False"}
              /\ (lastOp'.ret = "True")
                   <=> (lastOp'.ival \in {0, 1, 2} /\ storeUp)
              /\ lastOp'.ret = "True"
                 => /\ store'[PositionKey(m)] = lastOp'.ival
                    /\ store'[InstanceKey(m)] = store[InstanceKey(m)]
                    /\ store'[PhaseKey(m)] = store[PhaseKey(m)]
                    /\ localmeters' = localmeters ]_vars

\* C8 witness: position 2 was written to an ACTIVE channel and accepted
C8_Witness ==
    /\ lastOp.op = "position_changed"
    /\ lastOp.ival = 2
    /\ lastOp.ret = "True"
    /\ Active(localmeters[lastOp.ch])
    /\ store[PositionKey(localmeters[lastOp.ch])] = 2

\* the physical phase presented as logical line k when physical phase p is
\* line 1: p, then the next two phases cyclically
Rotation(p, k) == Letters[((p + k - 2) % 3) + 1]

\* the points of lines 1..3 hold the live block's values of the phases
\* that p assigns to them
LiveMapped(items, block, p) ==
    \A k \in 1..3 :
      /\ items[<<k, "Voltage">>] = block[<<Rotation(p, k), "voltage">>]
      /\ items[<<k, "Current">>] = block[<<Rotation(p, k), "current">>]
      /\ items[<<k, "Power">>] = block[<<Rotation(p, k), "act_power">>]

\* the three parts of C9; needStore tells whether a write is accepted only
\* while the channel's monitor knows the store
PhaseWriteSteps(needStore) ==
    /\ (lastOp'.op = "phase_changed" /\ Active(localmeters[lastOp'.ch]))
       => LET m == localmeters[lastOp'.ch]
          IN /\ lastOp'.ret \in {"True", "False"}
             /\ (lastOp'.ret = "True")
                  <=> (lastOp'.ival \in {1, 2, 3} /\ (needStore => storeUp))
             /\ lastOp'.ret = "True"
                => /\ store'[PhaseKey(m)] = lastOp'.ival
                   /\ localmeters'[lastOp'.ch].phase = lastOp'.ival
    /\ (/\ lastOp'.op = "ingest"
        /\ lastOp'.sval = "em"
        /\ lastOp'.keys = DOMAIN LiveBlock3(1)
        /\ Active(localmeters[lastOp'.ch])
        /\ localmeters[lastOp'.ch].kind = "three")
       => \E n \in 1..NumFrames :
            LiveMapped(localmeters'[lastOp'.ch].items, LiveBlock3(n),
                       localmeters[lastOp'.ch].phase)
    /\ \A i \in DOMAIN localmeters :
         (Active(localmeters[i]) /\ lastOp'.op # "phase_changed")
         => localmeters'[i].phase = localmeters[i].phase

\* C9 as stated: a phase write on an ACTIVE channel is accepted exactly for
\* 1, 2, 3; an accepted write stores the value and sets the in-memory phase
\* assignment, which nothing else changes and which the next ingest of a
\* three-phase channel maps the physical phases with
C9_PhaseWriteAsStated ==
    [][ PhaseWriteSteps(FALSE) ]_vars

\* C9 amended: as C9, but the write is accepted exactly for 1, 2, 3 while
\* the channel's monitor knows the store, and rejected otherwise
C9_PhaseWrite ==
    [][ PhaseWriteSteps(TRUE) ]_vars

\* C9 witness: a three-phase channel whose in-memory phase assignment is 3,
\* which only an accepted phase write of 3 gives it, has ingested live
\* block 1: line 1 shows phase c, line 2 phase a, line 3 phase b
C9_Witness ==
    /\ lastOp.op = "ingest"
    /\ lastOp.sval = "em"
    /\ lastOp.keys = DOMAIN LiveBlock3(1)
    /\ Active(localmeters[lastOp.ch])
    /\ localmeters[lastOp.ch].kind = "three"
    /\ localmeters[lastOp.ch].phase = 3
    /\ localmeters[lastOp.ch].items[<<1, "Voltage">>]
         = LiveBlock3(1)[<<"c", "voltage">>]
    /\ localmeters[lastOp.ch].items[<<2, "Voltage">>]
         = LiveBlock3(1)[<<"a", "voltage">>]
    /\ localmeters[lastOp.ch].items[<<3, "Voltage">>]
         = LiveBlock3(1)[<<"b", "voltage">>]

\* the handshake of the two-channel device with all identity fields
TwoChannelHandshake ==
    /\ {"mac", "fw_id", "model", "app"} \subseteq DOMAIN handshake
    /\ handshake["model"] = "SPEM-002CEBEU50"
    /\ handshake["app"] = "ProEM"

\* C10: after start with the two-channel handshake, every wait finding the
\* store, start has returned True and the group holds exactly the single
\* channels 0 and 1, both ACTIVE, channel i bound to the keys of index i
C10_TwoChannelStart ==
    (/\ lastOp.op = "start"
     /\ TwoChannelHandshake
     /\ lastOp.keys = {0, 1, 2})
    => /\ lastOp.ret = "True"
       /\ DOMAIN localmeters = {0, 1}
       /\ \A i \in {0, 1} :
            /\ localmeters[i].kind = "single"
            /\ localmeters[i].meterid = i
            /\ Active(localmeters[i])
            /\ localmeterskeys[i]
                 = {<<"em1", StrOf(i)>>, <<"em1data", StrOf(i)>>}

\* the handshake of the three-line device with all identity fields
ThreeLineHandshake ==
    /\ {"mac", "fw_id", "model", "app"} \subseteq DOMAIN handshake
    /\ handshake["model"] = "SPEM-003CEBEU"
    /\ handshake["app"] = "Pro3EM"

\* C11: after start with the three-line handshake with profile "monophase",
\* every wait finding the store, start has returned True and the group holds
\* exactly the single channels 0, 1 and 2, all ACTIVE, channel i bound to the
\* single-meter keys of index i
C11_MonophaseStart ==
    (/\ lastOp.op = "start"
     /\ ThreeLineHandshake
     /\ "profile" \in DOMAIN handshake
     /\ handshake["profile"] = "monophase"
     /\ lastOp.keys = {0, 1, 2})
    => /\ lastOp.ret = "True"
       /\ DOMAIN localmeters = {0, 1, 2}
       /\ \A i \in {0, 1, 2} :
            /\ localmeters[i].kind = "single"
            /\ localmeters[i].meterid = i
            /\ Active(localmeters[i])
            /\ localmeterskeys[i]
                 = {<<"em1", StrOf(i)>>, <<"em1data", StrOf(i)>>}

\* what C12 says of the group after start: start returned True and the group
\* holds exactly one channel, index 0, three-phase, bound to "em:0" and
\* "emdata:0"
OneThreePhaseChannel ==
    /\ lastOp.ret = "True"
    /\ DOMAIN localmeters = {0}
    /\ localmeters[0].kind = "three"
    /\ localmeters[0].service
    /\ DOMAIN localmeterskeys = {0}
    /\ localmeterskeys[0] = {<<"em", "0">>, <<"emdata", "0">>}

RecognizedPair ==
    /\ {"model", "app"} \subseteq DOMAIN handshake
    /\ \/ handshake["model"] = "SPEM-002CEBEU50" /\ handshake["app"] = "ProEM"
       \/ handshake["model"] = "SPEM-003CEBEU" /\ handshake["app"] = "Pro3EM"

\* C13: after start with a handshake whose (model, application) pair is not
\* recognized or that lacks the hardware address, the firmware id, the model
\* or the application, start has returned False and the group holds no
\* channel
C13_RejectedHandshakeNoChannels ==
    (/\ lastOp.op = "start"
     /\ \/ ~RecognizedPair
        \/ ~({"mac", "fw_id", "model", "app"} \subseteq DOMAIN handshake))
    => /\ lastOp.ret = "False"
       /\ DOMAIN localmeters = {}
       /\ DOMAIN localmeterskeys = {}

\* C15: after a start in which the wait of channel 0 for the store timed out
\* (the channel has its monitor and the wait did not find the store), start
\* has returned False, the channel has no service and no points, and its
\* destroyed flag is true
C15_TimeoutDestroysChannel ==
    (/\ lastOp.op = "start"
     /\ 0 \in DOMAIN localmeters
     /\ localmeters[0].monitor
     /\ 0 \notin lastOp.keys)
    => /\ lastOp.ret = "False"
       /\ ~localmeters[0].service
       /\ localmeters[0].items = NoItems
       /\ localmeters[0].destroyed

\* the physical phase whose field the assignment to line k's point q reads
\* in the with-block assigns
LineSource(assigns, k, q) ==
    LET j == CHOOSE x \in 1..Len(assigns) : assigns[x].path = <<k, q>>
    IN assigns[j].src[1][1]

\* the state after update was called with a block of the fields of a whole
\* live block on a three-phase channel that is ACTIVE
ThreeLiveIngested ==
    /\ lastOp.op = "ingest"
    /\ lastOp.sval = "em"
    /\ lastOp.keys = DOMAIN LiveBlock3(1)
    /\ localmeters[lastOp.ch].kind = "three"
    /\ Active(localmeters[lastOp.ch])

\* the points of lines 1..3 hold the live block's voltage, current and power
\* of the physical phases perm[1], perm[2], perm[3]
PublishedAs(items, block, perm) ==
    \A k \in 1..3 :
      /\ items[<<k, "Voltage">>] = block[<<perm[k], "voltage">>]
      /\ items[<<k, "Current">>] = block[<<perm[k], "current">>]
      /\ items[<<k, "Power">>] = block[<<perm[k], "act_power">>]

\* C16: the phase-1 position p of a three-phase channel is 1, 2 or 3, and
\* the physical phases its update reads for lines 1, 2, 3 are a permutation
\* of a, b, c: p, the phase after p and the phase after that, cyclically, the
\* same for voltage, current and power; a whole live block is published that
\* way
C16_PhaseRotation ==
    /\ \A i \in DOMAIN localmeters :
         localmeters[i].kind = "three"
         => LET p == localmeters[i].phase
            IN /\ p \in {1, 2, 3}
               /\ \A q \in {"Voltage", "Current", "Power"} :
                    LET perm == [k \in 1..3 |->
                                   LineSource(ThreeLiveAssigns(p), k, q)]
                    IN /\ {perm[k] : k \in 1..3} = {"a", "b", "c"}
                       /\ perm[1] = Letters[p]
                       /\ perm[2] = Letters[(p % 3) + 1]
                       /\ perm[3] = Letters[((p + 1) % 3) + 1]
    /\ ThreeLiveIngested
       => LET m == localmeters[lastOp.ch]
              perm == [k \in 1..3 |->
                         LineSource(ThreeLiveAssigns(m.phase), k, "Voltage")]
          IN \E n \in 1..NumFrames : PublishedAs(m.items, LiveBlock3(n), perm)

\* C16 witness: a three-phase channel with phase-1 position 2 has ingested
\* live block 1: the currents of lines 1, 2, 3 are those of phases b, c, a
C16_Witness ==
    /\ ThreeLiveIngested
    /\ localmeters[lastOp.ch].phase = 2
    /\ localmeters[lastOp.ch].items[<<1, "Current">>]
         = LiveBlock3(1)[<<"b", "current">>]
    /\ localmeters[lastOp.ch].items[<<2, "Current">>]
         = LiveBlock3(1)[<<"c", "current">>]
    /\ localmeters[lastOp.ch].items[<<3, "Current">>]
         = LiveBlock3(1)[<<"a", "current">>]

\* a_act_power + b_act_power + c_act_power of a live block
PowerSum(block) ==
    block[<<"a", "act_power">>] + block[<<"b", "act_power">>]
      + block[<<"c", "act_power">>]

\* C17: after an ACTIVE three-phase channel has ingested a live block that
\* holds the power of each of the three phases, the aggregate power point
\* holds the sum of the block's three powers, whatever the phase-1 position,
\* and the sum of the three line powers
C17_AggregatePower ==
    (/\ lastOp.op = "ingest"
     /\ lastOp.sval = "em"
     /\ {"a", "b", "c"} \X {"act_power"} \subseteq lastOp.keys
     /\ localmeters[lastOp.ch].kind = "three"
     /\ Active(localmeters[lastOp.ch]))
    => LET items == localmeters[lastOp.ch].items
       IN /\ \E n \in 1..NumFrames :
               items[<<0, "Power">>] = PowerSum(LiveBlock3(n))
          /\ items[<<0, "Power">>]
               = items[<<1, "Power">>] + items[<<2, "Power">>]
                   + items[<<3, "Power">>]

\* C18: after the group, whose channel 0 is an ACTIVE three-phase channel
\* with phase-1 position p, was handed a NotifyStatus whose params hold the
\* live block "em:0", update has returned without raising, lines 1..3 show
\* the block's voltage, current and power of the phases p assigns to them
\* and the aggregate power is the sum of the three powers
C18_GroupIngestPublishes ==
    (/\ lastOp.op = "update"
     /\ lastOp.sval = "NotifyStatus"
     /\ <<"em", "0">> \in lastOp.keys
     /\ DOMAIN localmeters = {0}
     /\ localmeters[0].kind = "three"
     /\ Active(localmeters[0]))
    => /\ lastOp.ret = "None"
       /\ \E n \in 1..NumFrames :
            /\ LiveMapped(localmeters[0].items, LiveBlock3(n),
                          localmeters[0].phase)
            /\ localmeters[0].items[<<0, "Power">>] = PowerSum(LiveBlock3(n))

\* C19: update on a channel that is not ACTIVE (never configured, or
\* destroyed) returns without raising and changes no channel, no point and
\* no stored setting
C19_IngestInactiveNoOp ==
    [][ (lastOp'.op = "ingest" /\ ~Active(localmeters[lastOp'.ch]))
        => /\ lastOp'.ret = "None"
           /\ localmeters' = localmeters
           /\ store' = store
           /\ destroyed' = destroyed ]_vars

\* C19 witness: update with an energy block was called on a three-phase
\* channel that start had configured and that was destroyed before the call
C19_Witness ==
    /\ lastOp.op = "ingest"
    /\ lastOp.sval = "emdata"
    /\ lastOp.was
    /\ lastOp.ret = "None"
    /\ localmeters[lastOp.ch].kind = "three"
    /\ localmeters[lastOp.ch].monitor
    /\ ~Active(localmeters[lastOp.ch])

\* the store keys the channel of kind and index id of the device with
\* hardware address mac registers when it is started
ChannelKeys(mac, kind, id) ==
    LET al == IF kind = "single"
              THEN SingleMeter_start(SingleMeter(id),
                       Handshake("SPEM-002CEBEU50", "ProEM", Absent, mac, "F"),
                       EmptyStore, TRUE).m.aliases
              ELSE ThreePhaseMeter_start(ThreePhaseMeter,
                       Handshake("SPEM-003CEBEU", "Pro3EM", "triphase", mac,
                                 "F"),
                       EmptyStore, TRUE).m.aliases
    IN {al[a] : a \in DOMAIN al}

\* the channels a device can be split into: single meters 0..2, or the
\* three-phase meter
ChannelIds == ({"single"} \X (0..2)) \cup {<<"three", 0>>}

\* a write callback that was accepted
AcceptedWrite(op) ==
    /\ op.op \in {"role_changed", "position_changed", "phase_changed"}
    /\ op.ret = "True"

ThreeEnergyIngested ==
    /\ lastOp.op = "ingest"
    /\ lastOp.sval = "emdata"
    /\ lastOp.keys = DOMAIN EnergyBlock3(1)
    /\ localmeters[lastOp.ch].kind = "three"
    /\ Active(localmeters[lastOp.ch])

\* the energy points of lines 1..3 hold the block's counters, in tenths of
\* a kWh, of the phases that p assigns to them
LineEnergyMapped(items, block, p) ==
    \A k \in 1..3 :
      /\ items[<<k, "Energy/Forward">>]
           = Round1(block[<<Rotation(p, k), "total_act_energy">>])
      /\ items[<<k, "Energy/Reverse">>]
           = Round1(block[<<Rotation(p, k), "total_act_ret_energy">>])

\* the sum of the counters named field of phases a, b, c of an energy block
PhaseSum(block, field) ==
    block[<<"a", field>>] + block[<<"b", field>>] + block[<<"c", field>>]

\* C25 as stated: after an ACTIVE three-phase channel has ingested an energy
\* block, the forward and reverse totals are the sums of the counters of
\* phases a, b, c, scaled after the sum, and the energies of line k are
\* those of the phase p assigns to line k
C25_EnergyTotalsAsStated ==
    ThreeEnergyIngested
    => LET m == localmeters[lastOp.ch]
       IN \E n \in 1..NumFrames :
            /\ m.items[<<0, "Energy/Forward">>]
                 = Round1(PhaseSum(EnergyBlock3(n), "total_act_energy"))
            /\ m.items[<<0, "Energy/Reverse">>]
                 = Round1(PhaseSum(EnergyBlock3(n), "total_act_ret_energy"))
            /\ LineEnergyMapped(m.items, EnergyBlock3(n), m.phase)

\* C25 amended: after an ACTIVE three-phase channel has ingested an energy
\* block, the forward and reverse totals are the block's total_act and
\* total_act_ret, scaled, whatever p is, and the energies of line k are
\* those of the phase p assigns to line k
C25_EnergyTotals ==
    ThreeEnergyIngested
    => LET m == localmeters[lastOp.ch]
       IN \E n \in 1..NumFrames :
            /\ m.items[<<0, "Energy/Forward">>]
                 = Round1(EnergyBlock3(n)[<<"", "total_act">>])
            /\ m.items[<<0, "Energy/Reverse">>]
                 = Round1(EnergyBlock3(n)[<<"", "total_act_ret">>])
            /\ LineEnergyMapped(m.items, EnergyBlock3(n), m.phase)

\* C25 witness: a three-phase channel with phase-1 position 2 has ingested
\* energy block 1: the forward total is the block's total_act and the
\* forward energy of line 1 is that of phase b
C25_Witness ==
    /\ ThreeEnergyIngested
    /\ localmeters[lastOp.ch].phase = 2
    /\ localmeters[lastOp.ch].items[<<0, "Energy/Forward">>]
         = Round1(EnergyBlock3(1)[<<"", "total_act">>])
    /\ localmeters[lastOp.ch].items[<<1, "Energy/Forward">>]
         = Round1(EnergyBlock3(1)[<<"b", "total_act_energy">>])
    /\ localmeters[lastOp.ch].items[<<3, "Energy/Reverse">>]
         = Round1(EnergyBlock3(1)[<<"a", "total_act_ret_energy">>])

\* C26: the in-memory phase assignment of every ACTIVE channel equals the
\* phase value the store holds for the channel and lies in 1..3
C26_PhaseInSyncWithStore ==
    \A i \in DOMAIN localmeters :
      Active(localmeters[i])
      => /\ localmeters[i].phase \in {1, 2, 3}
         /\ localmeters[i].phase = store[PhaseKey(localmeters[i])]

\* the field of a live block that the point q of a line is published from
LiveField(q) ==
    CASE q = "Voltage" -> "voltage"
      [] q = "Current" -> "current"
      [] q = "Power" -> "act_power"

\* C21: after an ACTIVE three-phase channel has ingested a live block that
\* lacks a field, update has returned without raising and every line point
\* whose field is in the block holds the block's value
C21_MissingFieldKeepsOthers ==
    (/\ lastOp.op = "ingest"
     /\ lastOp.sval = "em"
     /\ lastOp.keys # DOMAIN LiveBlock3(1)
     /\ lastOp.keys \subseteq DOMAIN LiveBlock3(1)
     /\ localmeters[lastOp.ch].kind = "three"
     /\ Active(localmeters[lastOp.ch]))
    => LET m == localmeters[lastOp.ch]
       IN /\ lastOp.ret = "None"
          /\ \A k \in 1..3, q \in {"Voltage", "Current", "Power"} :
               <<Rotation(m.phase, k), LiveField(q)>> \in lastOp.keys
               => m.items[<<k, q>>]
                    = LiveBlock3(1)[<<Rotation(m.phase, k), LiveField(q)>>]

\* C22: after the group, whose channel 0 is an ACTIVE three-phase channel,
\* was handed a NotifyStatus whose block "em:0" is malformed and whose block
\* "emdata:0" is whole, update has returned without raising and the energy
\* block is published on the channel, whatever the order of the keys
C22_MalformedBlockIsolated ==
    (/\ lastOp.op = "update"
     /\ lastOp.sval = "NotifyStatus"
     /\ lastOp.ival = 1
     /\ lastOp.keys = {<<"em", "0">>, <<"emdata", "0">>}
     /\ DOMAIN localmeters = {0}
     /\ localmeters[0].kind = "three"
     /\ Active(localmeters[0]))
    => /\ lastOp.ret = "None"
       /\ localmeters[0].items[<<0, "Energy/Forward">>]
            = Round1(EnergyBlock3(1)[<<"", "total_act">>])
       /\ LineEnergyMapped(localmeters[0].items, EnergyBlock3(1),
                           localmeters[0].phase)

====
